---- MODULE Spec2Model ----
(***************************************************************************)
(* ThermoPro TP920 sensor platform (thermopro_tp920/sensor.py).            *)
(*                                                                         *)
(* The model follows ThermoProDataCoordinator._async_update_data step by   *)
(* step: the retry loop, the asyncio lock, the BleakClient context, the    *)
(* handshake writes, the notification wait, the decode, and the handling   *)
(* of the exceptions.  Temperatures are kept in tenths of a degree         *)
(* Fahrenheit (176.0 is 1760), which is exactly what round(x, 1) returns.  *)
(***************************************************************************)
EXTENDS Integers, Sequences, FiniteSets, TLC

VARIABLES
    pc,                  \* position of each update cycle in _async_update_data
    attempt,             \* loop variable of "for attempt in range(MAX_RETRIES)"
    last_exception,      \* local last_exception
    exc,                 \* exception in flight inside the current attempt
    result,              \* value of the return statement travelling out of the with blocks
    locked,              \* ble_lock._locked
    waiters,             \* ble_lock._waiters (FIFO)
    conn,                \* the BleakClient context of the cycle is entered (connection open)
    written,             \* handshake commands written in the current attempt
    subscribed,          \* a notify subscription of the cycle is live
    fut,                 \* notification_received
    outcome,             \* what _async_update_data returned or raised
    data,                \* coordinator.data
    last_update_success, \* coordinator.last_update_success
    subOk,               \* history: start_notify succeeded in the current attempt
    unsubCalls,          \* history: stop_notify calls in the current attempt
    timedOut,            \* history: the wait of the current attempt timed out
    outcomes,            \* history: how each finished attempt of the cycle ended
    nSleeps,             \* history: RETRY_DELAY sleeps of the cycle
    started,             \* history: attempts started in the cycle
    dataPayload,         \* history: the payload coordinator.data was decoded from
    decodedFrom,         \* history: the payload the returned dict was decoded from
    refreshes,           \* number of update cycles requested so far
    hsDelays,            \* history: 0.4 s handshake delays of the current attempt
    writeCalls,          \* history: write_gatt_char calls of the current attempt
    ignored,             \* history: the handler was called with the future already done
    lastRefresh,         \* history: how the refresh that finished last ended
    entries,             \* config entries: the address each one was created for
    ble_locks,           \* config entries: ble_lock._locked of each entry's coordinator
    sessions,            \* config entries: where each cycle of each coordinator is
    dIn,                 \* decode check: the notification payload
    dOut                 \* decode check: what the decode produced

vars == <<pc, attempt, last_exception, exc, result, locked, waiters, conn, written,
          subscribed, fut, outcome, data, last_update_success, subOk, unsubCalls,
          timedOut, outcomes, nSleeps, started, dataPayload, decodedFrom, refreshes,
          hsDelays, writeCalls, ignored, lastRefresh, entries, ble_locks, sessions,
          dIn, dOut>>

(***************************************************************************)
(* Program constants                                                       *)
(***************************************************************************)
MAX_RETRIES == 3

RETRY_DELAY == 2

HANDSHAKE_COMMANDS ==
    << "01098a7a13b73ed68b67c2a0", "410041", "28040a2d8c6e5d", "20010f30",
       "23060200ffffffff27", "23060400ffffffff29" >>

None == "None"   \* no exception, no result

(***************************************************************************)
(* Bounds of the model                                                     *)
(***************************************************************************)
MaxRefreshes == 2    \* update cycles requested in one behaviour

MaxPayloadLen == 13  \* longest notification payload of the decode check, in bytes

\* The update cycles that may overlap on the one coordinator: the scheduled
\* refresh and a refresh requested while it is still running.
Cycles == { "scheduled", "requested" }

\* Device addresses a user may submit to the config flow
Addresses == { "A4:C1:38:00:00:01", "A4:C1:38:00:00:02" }

(***************************************************************************)
(* bytes.hex(), slicing and float(): the decode of lines 108-124           *)
(***************************************************************************)
HexDigits == << "0", "1", "2", "3", "4", "5", "6", "7", "8", "9",
                "a", "b", "c", "d", "e", "f" >>

\* data.hex(): two lower-case hex characters per byte
RECURSIVE Hex(_)
Hex(bytes) ==
    IF bytes = << >> THEN << >>
    ELSE << HexDigits[(Head(bytes) \div 16) + 1], HexDigits[(Head(bytes) % 16) + 1] >>
         \o Hex(Tail(bytes))

\* s[a:b] of Python, for 0 <= a <= b: clipped to the length of s
Slice(s, a, b) ==
    LET hi == IF b < Len(s) THEN b ELSE Len(s)
    IN  SubSeq(s, a + 1, hi)

DigitChars == { "0", "1", "2", "3", "4", "5", "6", "7", "8", "9" }

DigitVal(ch) == CHOOSE d \in 0..9 : HexDigits[d + 1] = ch

IsDigits(s) == Len(s) > 0 /\ \A i \in 1..Len(s) : s[i] \in DigitChars

RECURSIVE DecVal(_)
DecVal(s) ==
    IF s = << >> THEN 0
    ELSE 10 * DecVal(SubSeq(s, 1, Len(s) - 1)) + DigitVal(s[Len(s)])

RECURSIVE Pow10(_)
Pow10(n) == IF n = 0 THEN 1 ELSE 10 * Pow10(n - 1)

\* Largest exponent whose value is kept exact; a larger float is Huge.
ExactExp == 5

\* Config entries created by the flow
MaxEntries == 2

\* Values of the decode.  A temperature is held in tenths of a degree.
NoneVal == [kind |-> "None"]

Float(v) == [kind |-> "float", v |-> v]

Huge == [kind |-> "huge"]

Raised(e) == [kind |-> e]

\* float(s) for a string of hex characters: decimal digits, optionally followed
\* by "e" and a decimal exponent ("1e03" is 1000.0); anything else raises
\* ValueError.  The value is an integer, or Huge for a finite float of
\* mantissa * 10^x with x above ExactExp.
ParseFloat(s) ==
    IF IsDigits(s) THEN Float(DecVal(s))
    ELSE IF \E k \in 1..Len(s) :
                /\ s[k] = "e"
                /\ IsDigits(SubSeq(s, 1, k - 1))
                /\ IsDigits(SubSeq(s, k + 1, Len(s)))
         THEN LET k == CHOOSE j \in 1..Len(s) : s[j] = "e"
                  m == DecVal(SubSeq(s, 1, k - 1))
                  x == DecVal(SubSeq(s, k + 1, Len(s)))
              IN  IF m = 0 THEN Float(0)
                  ELSE IF x > ExactExp THEN Huge
                  ELSE Float(m * Pow10(x))
         ELSE Raised("ValueError")

Sentinel == << "f", "f", "f", "f" >>

\* Mutant: the tenths are cut off instead of rounded
TruncateToTenths(c10) == (18 * c10 + 3200) \div 10

\* round((c10 / 10.0) * 9 / 5 + 32, 1) in tenths of a degree.  The exact value
\* in tenths is (18 c10 + 3200) / 10, never half-way between two tenths, so the
\* rounding of the float is the rounding of the exact value.
ToFahrenheitTenths(c10) == (18 * c10 + 3200 + 5) \div 10

\* convert_to_fahrenheit: None for the sentinel; float() may raise ValueError
convert_to_fahrenheit(probe_hex) ==
    IF probe_hex # Sentinel
    THEN LET celsius10 == ParseFloat(probe_hex)
         IN  IF celsius10.kind = "float"
             THEN Float(ToFahrenheitTenths(celsius10.v))
             ELSE celsius10
    ELSE NoneVal

probe1_hex(payload) == Slice(Hex(payload), 14, 18)

probe2_hex(payload) == Slice(Hex(payload), 22, 26)

\* Lines 108-124: the dict of the two conversions; a float() that raises ends
\* the attempt with ValueError and no dict is built.
Decode(payload) ==
    LET v1 == convert_to_fahrenheit(probe1_hex(payload))
        v2 == convert_to_fahrenheit(probe2_hex(payload))
    IN  IF v1.kind = "ValueError" \/ v2.kind = "ValueError"
        THEN Raised("ValueError")
        ELSE [kind |-> "dict", p1 |-> v1, p2 |-> v2]

(***************************************************************************)
(* Notification payloads.  The frame is 13 bytes: hex characters 14..18    *)
(* are bytes 8 and 9, hex characters 22..26 are bytes 12 and 13.           *)
(***************************************************************************)
FrameHeader == << 48, 15, 90, 12, 0, 0, 0 >>

Frame(b) == FrameHeader \o << b[1], b[2] >> \o << 0, 0 >> \o << b[3], b[4] >>

\* The first n bytes of a frame, padded with zero bytes beyond its end
RECURSIVE Zeros(_)
Zeros(n) == IF n <= 0 THEN << >> ELSE << 0 >> \o Zeros(n - 1)

Resize(frame, n) ==
    IF n <= Len(frame) THEN SubSeq(frame, 1, n) ELSE frame \o Zeros(n - Len(frame))

\* Payloads the device sends in the update cycles:
\*   probe 1 "0320", probe 2 "ffff";  probe 1 "ffff", probe 2 "0221";
\*   probe 1 "00a3" (not decimal), probe 2 "0320"
Payloads ==
    { Frame(<< 3, 32, 255, 255 >>), Frame(<< 255, 255, 2, 33 >>),
      Frame(<< 0, 163, 3, 32 >>) }

\* Bytes of the probe fields in the decode check:
\*   00 03 10 20 21 ff a3 1e e2
SampleBytes == { 0, 3, 16, 32, 33, 255, 163, 30, 226 }

DecodeInputs ==
    { Resize(Frame(b), n) : b \in [1..4 -> SampleBytes], n \in 0..MaxPayloadLen }

(***************************************************************************)
(* Initial state: the coordinator is constructed, no refresh has run.      *)
(***************************************************************************)
NoFuture == [state |-> "none", value |-> << >>]

NoOutcome == [kind |-> "None"]

NotDecoded == [kind |-> "pending"]

InitCoordinator ==
    /\ pc = [c \in Cycles |-> "idle"]
    /\ attempt = [c \in Cycles |-> -1]
    /\ last_exception = [c \in Cycles |-> None]
    /\ exc = [c \in Cycles |-> None]
    /\ result = [c \in Cycles |-> NoneVal]
    /\ locked = FALSE
    /\ waiters = << >>
    /\ conn = [c \in Cycles |-> FALSE]
    /\ written = [c \in Cycles |-> << >>]
    /\ subscribed = [c \in Cycles |-> FALSE]
    /\ fut = [c \in Cycles |-> NoFuture]
    /\ outcome = [c \in Cycles |-> NoOutcome]
    /\ data = NoneVal
    /\ last_update_success = TRUE
    /\ subOk = [c \in Cycles |-> FALSE]
    /\ unsubCalls = [c \in Cycles |-> 0]
    /\ timedOut = [c \in Cycles |-> FALSE]
    /\ outcomes = [c \in Cycles |-> << >>]
    /\ nSleeps = [c \in Cycles |-> 0]
    /\ started = [c \in Cycles |-> 0]
    /\ dataPayload = << >>
    /\ decodedFrom = [c \in Cycles |-> << >>]
    /\ refreshes = 0
    /\ hsDelays = [c \in Cycles |-> 0]
    /\ writeCalls = [c \in Cycles |-> 0]
    /\ ignored = [c \in Cycles |-> FALSE]
    /\ lastRefresh = "none"
    /\ entries = << >>
    /\ ble_locks = << >>
    /\ sessions = << >>

Init ==
    /\ InitCoordinator
    /\ dIn = << >>
    /\ dOut = NotDecoded

coordVars == <<data, last_update_success, dataPayload, lastRefresh>>

lockVars == <<locked, waiters>>

decodeVars == <<dIn, dOut>>

attemptHist == <<subOk, unsubCalls, timedOut>>

handshakeHist == <<hsDelays, writeCalls>>

entryVars == <<entries, ble_locks, sessions>>

cycleHist == <<outcomes, nSleeps, started>>

(***************************************************************************)
(* The retry loop, lines 75-76                                             *)
(***************************************************************************)
\* Line 76: range(MAX_RETRIES) has a value after a
HasNext(a) == a + 1 < MAX_RETRIES

\* A refresh is requested: _async_update_data starts, line 75
Start(c) ==
    /\ pc[c] \in { "idle", "done" }
    /\ refreshes < MaxRefreshes
    /\ refreshes' = refreshes + 1
    /\ pc' = [pc EXCEPT ![c] = "for"]
    /\ attempt' = [attempt EXCEPT ![c] = -1]
    /\ last_exception' = [last_exception EXCEPT ![c] = None]
    /\ outcome' = [outcome EXCEPT ![c] = NoOutcome]
    /\ outcomes' = [outcomes EXCEPT ![c] = << >>]
    /\ nSleeps' = [nSleeps EXCEPT ![c] = 0]
    /\ started' = [started EXCEPT ![c] = 0]
    /\ decodedFrom' = [decodedFrom EXCEPT ![c] = << >>]
    /\ UNCHANGED <<exc, result, conn, written, subscribed, fut>>
    /\ UNCHANGED <<lockVars, coordVars, attemptHist, handshakeHist, ignored, decodeVars, entryVars>>

\* Line 76: the next value of the loop variable, or the end of the loop
ForNext(c) ==
    /\ pc[c] = "for"
    /\ IF HasNext(attempt[c])
       THEN /\ attempt' = [attempt EXCEPT ![c] = @ + 1]
            /\ started' = [started EXCEPT ![c] = @ + 1]
            /\ pc' = [pc EXCEPT ![c] = "acquire"]
       ELSE /\ pc' = [pc EXCEPT ![c] = "raise"]
            /\ UNCHANGED <<attempt, started>>
    /\ UNCHANGED <<last_exception, exc, result, conn, written, subscribed, fut, outcome>>
    /\ UNCHANGED <<lockVars, coordVars, attemptHist, handshakeHist, ignored, outcomes, nSleeps, refreshes, decodedFrom, decodeVars, entryVars>>

(***************************************************************************)
(* asyncio.Lock, line 78                                                   *)
(***************************************************************************)
\* Mutant: the attempt does not wait for the lock
LockFreeAlways == TRUE

\* The fast path of Lock.acquire: not locked and nobody queued
LockFree == ~locked /\ waiters = << >>

\* Line 80: a fresh future for the attempt
NewFuture == [state |-> "pending", value |-> << >>]

Acquire(c) ==
    /\ pc[c] = "acquire"
    /\ IF LockFree
       THEN /\ locked' = TRUE
            /\ fut' = [fut EXCEPT ![c] = NewFuture]
            /\ pc' = [pc EXCEPT ![c] = "connect"]
            /\ UNCHANGED waiters
       ELSE /\ waiters' = Append(waiters, c)
            /\ pc' = [pc EXCEPT ![c] = "waitlock"]
            /\ UNCHANGED <<locked, fut>>
    /\ UNCHANGED <<attempt, last_exception, exc, result, conn, written, subscribed, outcome>>
    /\ UNCHANGED <<coordVars, attemptHist, handshakeHist, ignored, cycleHist, refreshes, decodedFrom, decodeVars, entryVars>>

\* Lock.release woke the first waiter: it takes the lock
WakeAcquire(c) ==
    /\ pc[c] = "waitlock"
    /\ ~locked
    /\ waiters # << >>
    /\ Head(waiters) = c
    /\ waiters' = Tail(waiters)
    /\ locked' = TRUE
    /\ fut' = [fut EXCEPT ![c] = NewFuture]
    /\ pc' = [pc EXCEPT ![c] = "connect"]
    /\ UNCHANGED <<attempt, last_exception, exc, result, conn, written, subscribed, outcome>>
    /\ UNCHANGED <<coordVars, attemptHist, handshakeHist, ignored, cycleHist, refreshes, decodedFrom, decodeVars, entryVars>>

(***************************************************************************)
(* One attempt inside the lock, lines 87-124                               *)
(***************************************************************************)
\* Mutant: an exception leaves the block without the disconnect of __aexit__
RaisePastExit(c, e) ==
    /\ exc' = [exc EXCEPT ![c] = e]
    /\ pc' = [pc EXCEPT ![c] = "release"]

\* Where an exception raised inside the BleakClient block goes: __aexit__
RaiseInClient(c, e) ==
    /\ exc' = [exc EXCEPT ![c] = e]
    /\ pc' = [pc EXCEPT ![c] = "disconnect"]

\* Line 87, BleakClient.__aenter__ connects within 20 s and the client is connected
ConnectOk(c) ==
    /\ pc[c] = "connect"
    /\ conn' = [conn EXCEPT ![c] = TRUE]
    /\ pc' = [pc EXCEPT ![c] = "write"]
    /\ UNCHANGED <<attempt, last_exception, exc, result, written, subscribed, fut, outcome>>
    /\ UNCHANGED <<lockVars, coordVars, attemptHist, handshakeHist, ignored, cycleHist, refreshes, decodedFrom, decodeVars, entryVars>>

\* Line 87, __aenter__ raises: no connection, the block is not entered
ConnectFail(c) ==
    /\ pc[c] = "connect"
    /\ \E e \in { "BleakError", "TimeoutError" } : exc' = [exc EXCEPT ![c] = e]
    /\ pc' = [pc EXCEPT ![c] = "release"]
    /\ UNCHANGED <<attempt, last_exception, result, conn, written, subscribed, fut, outcome>>
    /\ UNCHANGED <<lockVars, coordVars, attemptHist, handshakeHist, ignored, cycleHist, refreshes, decodedFrom, decodeVars, entryVars>>

\* Lines 88-91: the block is entered but client.is_connected is false
ConnectLost(c) ==
    /\ pc[c] = "connect"
    /\ conn' = [conn EXCEPT ![c] = TRUE]
    /\ RaiseInClient(c, "BleakError")
    /\ UNCHANGED <<attempt, last_exception, result, written, subscribed, fut, outcome>>
    /\ UNCHANGED <<lockVars, coordVars, attemptHist, handshakeHist, ignored, cycleHist, refreshes, decodedFrom, decodeVars, entryVars>>

\* Line 96: the next handshake command is written
WriteOk(c) ==
    /\ pc[c] = "write"
    /\ written' = [written EXCEPT ![c] = Append(@, HANDSHAKE_COMMANDS[Len(@) + 1])]
    /\ writeCalls' = [writeCalls EXCEPT ![c] = @ + 1]
    /\ pc' = [pc EXCEPT ![c] = "hsleep"]
    /\ UNCHANGED <<attempt, last_exception, exc, result, conn, subscribed, fut, outcome>>
    /\ UNCHANGED <<lockVars, coordVars, attemptHist, hsDelays, ignored, cycleHist, refreshes, decodedFrom, decodeVars, entryVars>>

\* Mutant: the rejected write is swallowed and the loop goes on
WriteFailSkipped(c) ==
    /\ pc[c] = "write"
    /\ writeCalls' = [writeCalls EXCEPT ![c] = @ + 1]
    /\ pc' = [pc EXCEPT ![c] = "hsleep"]
    /\ UNCHANGED <<attempt, last_exception, exc, result, conn, written, subscribed, fut, outcome>>
    /\ UNCHANGED <<lockVars, coordVars, attemptHist, hsDelays, ignored, cycleHist, refreshes, decodedFrom, decodeVars, entryVars>>

\* Line 96: the transport rejects the write
WriteFail(c) ==
    /\ pc[c] = "write"
    /\ writeCalls' = [writeCalls EXCEPT ![c] = @ + 1]
    /\ RaiseInClient(c, "BleakError")
    /\ UNCHANGED <<attempt, last_exception, result, conn, written, subscribed, fut, outcome>>
    /\ UNCHANGED <<lockVars, coordVars, attemptHist, hsDelays, ignored, cycleHist, refreshes, decodedFrom, decodeVars, entryVars>>

\* Mutant: the loop stops one command early
HandshakeSleepShort(c) ==
    /\ pc[c] = "hsleep"
    /\ pc' = [pc EXCEPT ![c] =
                IF Len(written[c]) < Len(HANDSHAKE_COMMANDS) - 1 THEN "write" ELSE "subscribe"]
    /\ hsDelays' = [hsDelays EXCEPT ![c] = @ + 1]
    /\ UNCHANGED <<attempt, last_exception, exc, result, conn, written, subscribed, fut, outcome>>
    /\ UNCHANGED <<lockVars, coordVars, attemptHist, writeCalls, ignored, cycleHist, refreshes, decodedFrom, decodeVars, entryVars>>

\* Line 97 and the loop of line 95: sleep 0.4 s, then the next command or line 99
HandshakeSleep(c) ==
    /\ pc[c] = "hsleep"
    /\ pc' = [pc EXCEPT ![c] =
                IF Len(written[c]) < Len(HANDSHAKE_COMMANDS) THEN "write" ELSE "subscribe"]
    /\ hsDelays' = [hsDelays EXCEPT ![c] = @ + 1]
    /\ UNCHANGED <<attempt, last_exception, exc, result, conn, written, subscribed, fut, outcome>>
    /\ UNCHANGED <<lockVars, coordVars, attemptHist, writeCalls, ignored, cycleHist, refreshes, decodedFrom, decodeVars, entryVars>>

\* Line 99: start_notify succeeds
SubscribeOk(c) ==
    /\ pc[c] = "subscribe"
    /\ subscribed' = [subscribed EXCEPT ![c] = TRUE]
    /\ subOk' = [subOk EXCEPT ![c] = TRUE]
    /\ pc' = [pc EXCEPT ![c] = "wait"]
    /\ UNCHANGED <<attempt, last_exception, exc, result, conn, written, fut, outcome>>
    /\ UNCHANGED <<lockVars, coordVars, unsubCalls, timedOut, handshakeHist, ignored, cycleHist, refreshes, decodedFrom, decodeVars, entryVars>>

\* Line 99: start_notify raises
SubscribeFail(c) ==
    /\ pc[c] = "subscribe"
    /\ RaiseInClient(c, "BleakError")
    /\ UNCHANGED <<attempt, last_exception, result, conn, written, subscribed, fut, outcome>>
    /\ UNCHANGED <<lockVars, coordVars, attemptHist, handshakeHist, ignored, cycleHist, refreshes, decodedFrom, decodeVars, entryVars>>

\* Mutant: the handler takes every payload, without the done() check
notification_handlerLastWins(c, payload) == [state |-> "result", value |-> payload]

\* Lines 82-85, notification_handler: the device delivers a payload while the
\* subscription is live; only a pending future takes it
notification_handler(c, payload) ==
    IF fut[c].state = "pending"
    THEN [state |-> "result", value |-> payload]
    ELSE fut[c]

Notify(c) ==
    /\ subscribed[c]
    /\ conn[c]
    /\ \E payload \in Payloads :
           /\ fut' = [fut EXCEPT ![c] = notification_handler(c, payload)]
           /\ ignored' = [ignored EXCEPT ![c] = @ \/ fut[c].state # "pending"]
    /\ UNCHANGED <<pc, attempt, last_exception, exc, result, conn, written, subscribed, outcome>>
    /\ UNCHANGED <<lockVars, coordVars, attemptHist, handshakeHist, cycleHist, refreshes, decodedFrom, decodeVars, entryVars>>

\* Line 102: wait_for returns the result of the future
WaitResult(c) ==
    /\ pc[c] = "wait"
    /\ fut[c].state = "result"
    /\ pc' = [pc EXCEPT ![c] = "unsub"]
    /\ UNCHANGED <<attempt, last_exception, exc, result, conn, written, subscribed, fut, outcome>>
    /\ UNCHANGED <<lockVars, coordVars, attemptHist, handshakeHist, ignored, cycleHist, refreshes, decodedFrom, decodeVars, entryVars>>

\* What the except clause of lines 103-104 raises for the timeout of wait_for
TimeoutRaises == "UpdateFailed"

\* Mutant: stop_notify in the try body instead of the finally clause, so the
\* timeout leaves without it
WaitTimeoutNoFinally(c) ==
    /\ pc[c] = "wait"
    /\ fut[c].state = "pending"
    /\ fut' = [fut EXCEPT ![c] = [state |-> "cancelled", value |-> << >>]]
    /\ timedOut' = [timedOut EXCEPT ![c] = TRUE]
    /\ exc' = [exc EXCEPT ![c] = TimeoutRaises]
    /\ pc' = [pc EXCEPT ![c] = "disconnect"]
    /\ UNCHANGED <<attempt, last_exception, result, conn, written, subscribed, outcome>>
    /\ UNCHANGED <<lockVars, coordVars, subOk, unsubCalls, handshakeHist, ignored, cycleHist, refreshes, decodedFrom, decodeVars, entryVars>>

\* Lines 102-104: 10 s pass with the future pending; wait_for cancels it
WaitTimeout(c) ==
    /\ pc[c] = "wait"
    /\ fut[c].state = "pending"
    /\ fut' = [fut EXCEPT ![c] = [state |-> "cancelled", value |-> << >>]]
    /\ timedOut' = [timedOut EXCEPT ![c] = TRUE]
    /\ exc' = [exc EXCEPT ![c] = TimeoutRaises]
    /\ pc' = [pc EXCEPT ![c] = "unsub"]
    /\ UNCHANGED <<attempt, last_exception, result, conn, written, subscribed, outcome>>
    /\ UNCHANGED <<lockVars, coordVars, subOk, unsubCalls, handshakeHist, ignored, cycleHist, refreshes, decodedFrom, decodeVars, entryVars>>

\* Where the finally clause of lines 105-106 leaves to: line 108, or out of the block
AfterFinally(e) == IF e = None THEN "decode" ELSE "disconnect"

\* Line 106: stop_notify succeeds; an exception in flight goes on
UnsubscribeOk(c) ==
    /\ pc[c] = "unsub"
    /\ unsubCalls' = [unsubCalls EXCEPT ![c] = @ + 1]
    /\ subscribed' = [subscribed EXCEPT ![c] = FALSE]
    /\ pc' = [pc EXCEPT ![c] = AfterFinally(exc[c])]
    /\ UNCHANGED <<attempt, last_exception, exc, result, conn, written, fut, outcome>>
    /\ UNCHANGED <<lockVars, coordVars, subOk, timedOut, handshakeHist, ignored, cycleHist, refreshes, decodedFrom, decodeVars, entryVars>>

\* Line 106: stop_notify raises; its exception replaces the one in flight
UnsubscribeFail(c) ==
    /\ pc[c] = "unsub"
    /\ unsubCalls' = [unsubCalls EXCEPT ![c] = @ + 1]
    /\ RaiseInClient(c, "BleakError")
    /\ UNCHANGED <<attempt, last_exception, result, conn, written, subscribed, fut, outcome>>
    /\ UNCHANGED <<lockVars, coordVars, subOk, timedOut, handshakeHist, ignored, cycleHist, refreshes, decodedFrom, decodeVars, entryVars>>

\* Lines 108-124: decode the payload; return the dict or raise ValueError
DecodePayload(c) ==
    /\ pc[c] = "decode"
    /\ LET r == Decode(fut[c].value)
       IN  IF r.kind = "dict"
           THEN /\ result' = [result EXCEPT ![c] = r]
                /\ UNCHANGED exc
           ELSE /\ exc' = [exc EXCEPT ![c] = r.kind]
                /\ UNCHANGED result
    /\ pc' = [pc EXCEPT ![c] = "disconnect"]
    /\ UNCHANGED <<attempt, last_exception, conn, written, subscribed, fut, outcome>>
    /\ UNCHANGED <<lockVars, coordVars, attemptHist, handshakeHist, ignored, cycleHist, refreshes, decodedFrom, decodeVars, entryVars>>

\* BleakClient.__aexit__ of line 87: disconnect, on every way out of the block.
\* Closing the link ends a subscription that stop_notify left behind.
Disconnect(c) ==
    /\ pc[c] = "disconnect"
    /\ conn' = [conn EXCEPT ![c] = FALSE]
    /\ subscribed' = [subscribed EXCEPT ![c] = FALSE]
    /\ pc' = [pc EXCEPT ![c] = "release"]
    /\ UNCHANGED <<attempt, last_exception, exc, result, written, fut, outcome>>
    /\ UNCHANGED <<lockVars, coordVars, attemptHist, handshakeHist, ignored, cycleHist, refreshes, decodedFrom, decodeVars, entryVars>>

\* Mutant: the lock is released on the normal way out only
ReleaseOnReturnOnly(c) ==
    /\ pc[c] = "release"
    /\ locked' = (exc[c] # None)
    /\ pc' = [pc EXCEPT ![c] = "handle"]
    /\ UNCHANGED <<attempt, last_exception, exc, result, conn, written, subscribed, fut>>
    /\ UNCHANGED <<outcome, waiters, coordVars, attemptHist, handshakeHist, ignored, cycleHist, refreshes, decodedFrom, decodeVars, entryVars>>

\* Lock.__aexit__ of line 78: release
Release(c) ==
    /\ pc[c] = "release"
    /\ locked' = FALSE
    /\ pc' = [pc EXCEPT ![c] = "handle"]
    /\ UNCHANGED <<attempt, last_exception, exc, result, conn, written, subscribed, fut>>
    /\ UNCHANGED <<outcome, waiters, coordVars, attemptHist, handshakeHist, ignored, cycleHist, refreshes, decodedFrom, decodeVars, entryVars>>

(***************************************************************************)
(* Out of the lock: return, or the except clauses of lines 126-143         *)
(***************************************************************************)
\* Mutant: the first except clause catches every exception
IsRetryableAny(e) == TRUE

\* Line 126: except (BleakError, asyncio.TimeoutError)
IsRetryable(e) == e \in { "BleakError", "TimeoutError" }

\* Mutants of the sleep guard: sleeping after the last attempt too, never sleeping
RetrySleepsAfterLast(a) == a < MAX_RETRIES

RetrySleepsNever(a) == FALSE

\* Line 136: if attempt < MAX_RETRIES - 1
RetrySleeps(a) == a < MAX_RETRIES - 1

\* The attempt is over: its future, its exception and its history are dropped
EndAttempt(c, how) ==
    /\ outcomes' = [outcomes EXCEPT ![c] = Append(@, how)]
    /\ exc' = [exc EXCEPT ![c] = None]
    /\ result' = [result EXCEPT ![c] = NoneVal]
    /\ fut' = [fut EXCEPT ![c] = NoFuture]
    /\ written' = [written EXCEPT ![c] = << >>]
    /\ subOk' = [subOk EXCEPT ![c] = FALSE]
    /\ unsubCalls' = [unsubCalls EXCEPT ![c] = 0]
    /\ timedOut' = [timedOut EXCEPT ![c] = FALSE]
    /\ hsDelays' = [hsDelays EXCEPT ![c] = 0]
    /\ writeCalls' = [writeCalls EXCEPT ![c] = 0]
    /\ ignored' = [ignored EXCEPT ![c] = FALSE]

\* Lines 121-124: the dict is returned to the coordinator's refresh, which
\* stores it in coordinator.data and sets last_update_success
Return(c) ==
    /\ pc[c] = "handle"
    /\ result[c] # NoneVal
    /\ outcome' = [outcome EXCEPT ![c] = result[c]]
    /\ data' = result[c]
    /\ last_update_success' = TRUE
    /\ lastRefresh' = "ok"
    /\ dataPayload' = fut[c].value
    /\ decodedFrom' = [decodedFrom EXCEPT ![c] = fut[c].value]
    /\ EndAttempt(c, "ok")
    /\ attempt' = [attempt EXCEPT ![c] = -1]
    /\ last_exception' = [last_exception EXCEPT ![c] = None]
    /\ pc' = [pc EXCEPT ![c] = "done"]
    /\ UNCHANGED <<conn, subscribed, lockVars, nSleeps, started>>
    /\ UNCHANGED <<refreshes, decodeVars, entryVars>>

\* Mutant: the exception of the first failed attempt is kept, later ones are not
ExceptTransportKeepsFirst(c) ==
    /\ pc[c] = "handle"
    /\ result[c] = NoneVal
    /\ IsRetryable(exc[c])
    /\ last_exception' = [last_exception EXCEPT ![c] = IF @ = None THEN exc[c] ELSE @]
    /\ EndAttempt(c, exc[c])
    /\ pc' = [pc EXCEPT ![c] = IF RetrySleeps(attempt[c]) THEN "sleep" ELSE "for"]
    /\ UNCHANGED <<attempt, conn, subscribed, outcome, lockVars, coordVars, nSleeps, started>>
    /\ UNCHANGED <<refreshes, decodedFrom, decodeVars, entryVars>>

\* Lines 126-137: a BleakError or a TimeoutError is kept and the loop goes on
ExceptTransport(c) ==
    /\ pc[c] = "handle"
    /\ result[c] = NoneVal
    /\ IsRetryable(exc[c])
    /\ last_exception' = [last_exception EXCEPT ![c] = exc[c]]
    /\ EndAttempt(c, exc[c])
    /\ pc' = [pc EXCEPT ![c] = IF RetrySleeps(attempt[c]) THEN "sleep" ELSE "for"]
    /\ UNCHANGED <<attempt, conn, subscribed, outcome, lockVars, coordVars, nSleeps, started>>
    /\ UNCHANGED <<refreshes, decodedFrom, decodeVars, entryVars>>

\* Line 137: asyncio.sleep(RETRY_DELAY)
RetrySleep(c) ==
    /\ pc[c] = "sleep"
    /\ nSleeps' = [nSleeps EXCEPT ![c] = @ + 1]
    /\ pc' = [pc EXCEPT ![c] = "for"]
    /\ UNCHANGED <<attempt, last_exception, exc, result, conn, written, subscribed, fut>>
    /\ UNCHANGED <<outcome, lockVars, coordVars, attemptHist, handshakeHist, ignored, outcomes, started>>
    /\ UNCHANGED <<refreshes, decodedFrom, decodeVars, entryVars>>

\* Lines 138-143: any other exception is kept and the loop is left
ExceptOther(c) ==
    /\ pc[c] = "handle"
    /\ result[c] = NoneVal
    /\ ~IsRetryable(exc[c])
    /\ last_exception' = [last_exception EXCEPT ![c] = exc[c]]
    /\ EndAttempt(c, exc[c])
    /\ pc' = [pc EXCEPT ![c] = "raise"]
    /\ UNCHANGED <<attempt, conn, subscribed, outcome, lockVars, coordVars, nSleeps, started>>
    /\ UNCHANGED <<refreshes, decodedFrom, decodeVars, entryVars>>

\* Line 146: UpdateFailed(f"Failed to update after {MAX_RETRIES} attempts:
\* {last_exception}"); the coordinator's refresh clears last_update_success
\* and keeps coordinator.data
RaiseUpdateFailed(c) ==
    /\ pc[c] = "raise"
    /\ outcome' = [outcome EXCEPT ![c] =
                     [kind |-> "UpdateFailed", attempts |-> MAX_RETRIES,
                      reason |-> last_exception[c]]]
    /\ last_update_success' = FALSE
    /\ lastRefresh' = "failed"
    /\ attempt' = [attempt EXCEPT ![c] = -1]
    /\ last_exception' = [last_exception EXCEPT ![c] = None]
    /\ pc' = [pc EXCEPT ![c] = "done"]
    /\ UNCHANGED <<exc, result, conn, written, subscribed, fut, data, dataPayload>>
    /\ UNCHANGED <<lockVars, attemptHist, handshakeHist, ignored, cycleHist, refreshes, decodedFrom, decodeVars, entryVars>>

(***************************************************************************)
(* ThermoProTP920ProbeSensor, lines 169-183                                *)
(***************************************************************************)
ProbeOf(d, probe_number) == IF probe_number = 1 THEN d.p1 ELSE d.p2

\* Mutant: no value is shown after a failed refresh
native_valueWhenFresh(probe_number) ==
    IF last_update_success /\ data.kind = "dict" THEN ProbeOf(data, probe_number) ELSE NoneVal

\* native_value: coordinator.data.get(probe_number), None without data
native_value(probe_number) ==
    IF data.kind = "dict" THEN ProbeOf(data, probe_number) ELSE NoneVal

\* Mutant: the probe's own entry is not looked at
availableWithAnyData(probe_number) == last_update_success /\ data.kind = "dict"

\* Mutant: super().available is left out
availableIgnoringRefresh(probe_number) ==
    /\ data.kind = "dict"
    /\ ProbeOf(data, probe_number) # NoneVal

\* available: super().available (last_update_success) and data and the
\* probe's entry is not None
available(probe_number) ==
    /\ last_update_success
    /\ data.kind = "dict"
    /\ ProbeOf(data, probe_number) # NoneVal

(***************************************************************************)
(* Specifications                                                          *)
(***************************************************************************)
Step(c) ==
    \/ ForNext(c)
    \/ Acquire(c)
    \/ WakeAcquire(c)
    \/ ConnectOk(c)
    \/ ConnectFail(c)
    \/ ConnectLost(c)
    \/ WriteOk(c)
    \/ WriteFail(c)
    \/ HandshakeSleep(c)
    \/ SubscribeOk(c)
    \/ SubscribeFail(c)
    \/ WaitResult(c)
    \/ WaitTimeout(c)
    \/ UnsubscribeOk(c)
    \/ UnsubscribeFail(c)
    \/ DecodePayload(c)
    \/ Disconnect(c)
    \/ Release(c)
    \/ Return(c)
    \/ ExceptTransport(c)
    \/ RetrySleep(c)
    \/ ExceptOther(c)
    \/ RaiseUpdateFailed(c)

Next ==
    \E c \in Cycles :
        \/ Start(c)
        \/ Step(c)
        \/ Notify(c)

Spec == Init /\ [][Next]_vars

\* Every coroutine that can take a step is scheduled again by the event loop,
\* and the timers of wait_for and sleep fire.
FairSpec == Spec /\ \A c \in Cycles : WF_vars(Step(c))

\* The decode alone, over the payloads of DecodeInputs
InitDecode ==
    /\ InitCoordinator
    /\ dIn \in DecodeInputs
    /\ dOut = NotDecoded

DecodeNotification ==
    /\ dOut = NotDecoded
    /\ dOut' = Decode(dIn)
    /\ UNCHANGED <<pc, attempt, last_exception, exc, result, locked, waiters, conn, written,
                   subscribed, fut, outcome, data, last_update_success, subOk, unsubCalls,
                   timedOut, outcomes, nSleeps, started, dataPayload, decodedFrom,
                   refreshes, hsDelays, writeCalls, ignored, lastRefresh, entryVars, dIn>>

NextDecode == DecodeNotification

SpecDecode == InitDecode /\ [][NextDecode]_vars

(***************************************************************************)
(* Config entries: config_flow.py and async_setup_entry.  Each entry gets  *)
(* its own coordinator and each coordinator its own ble_lock; the session  *)
(* of an attempt (lines 78-124, modelled step by step above) is one        *)
(* position here.                                                          *)
(***************************************************************************)
coordinatorVars ==
    <<pc, attempt, last_exception, exc, result, locked, waiters, conn, written,
      subscribed, fut, outcome, data, last_update_success, subOk, unsubCalls,
      timedOut, outcomes, nSleeps, started, dataPayload, decodedFrom, refreshes,
      hsDelays, writeCalls, ignored, lastRefresh, dIn, dOut>>

\* config_flow.py lines 11-19 and sensor.py lines 40-64: the submitted address
\* becomes an entry, whatever entries exist; its setup builds a coordinator
\* whose __init__ makes a new asyncio.Lock
async_step_user(address) ==
    /\ Len(entries) < MaxEntries
    /\ entries' = Append(entries, address)
    /\ ble_locks' = Append(ble_locks, FALSE)
    /\ sessions' = Append(sessions, [c \in Cycles |-> "idle"])
    /\ UNCHANGED coordinatorVars

\* Line 78 on the coordinator of entry i: take its ble_lock and open the
\* session with BleakClient(self.address), or queue behind the holder
CoordinatorAcquire(i, c) ==
    /\ sessions[i][c] = "idle"
    /\ IF ~ble_locks[i] /\ \A d \in Cycles : sessions[i][d] # "waitlock"
       THEN /\ ble_locks' = [ble_locks EXCEPT ![i] = TRUE]
            /\ sessions' = [sessions EXCEPT ![i][c] = "session"]
       ELSE /\ sessions' = [sessions EXCEPT ![i][c] = "waitlock"]
            /\ UNCHANGED ble_locks
    /\ UNCHANGED <<entries, coordinatorVars>>

\* The lock of entry i was released: the queued cycle takes it
CoordinatorWake(i, c) ==
    /\ sessions[i][c] = "waitlock"
    /\ ~ble_locks[i]
    /\ ble_locks' = [ble_locks EXCEPT ![i] = TRUE]
    /\ sessions' = [sessions EXCEPT ![i][c] = "session"]
    /\ UNCHANGED <<entries, coordinatorVars>>

\* The with blocks of lines 78 and 87 are left: disconnect, release
CoordinatorRelease(i, c) ==
    /\ sessions[i][c] = "session"
    /\ ble_locks' = [ble_locks EXCEPT ![i] = FALSE]
    /\ sessions' = [sessions EXCEPT ![i][c] = "idle"]
    /\ UNCHANGED <<entries, coordinatorVars>>

NextEntries ==
    \/ \E address \in Addresses : async_step_user(address)
    \/ \E i \in DOMAIN entries : \E c \in Cycles :
          \/ CoordinatorAcquire(i, c)
          \/ CoordinatorWake(i, c)
          \/ CoordinatorRelease(i, c)

SpecEntries == Init /\ [][NextEntries]_vars

(***************************************************************************)
(* Properties                                                              *)
(***************************************************************************)
TransportFailures == { "BleakError", "TimeoutError" }

Last(seq) == seq[Len(seq)]

AllTransport(seq) == \A i \in 1..Len(seq) : seq[i] \in TransportFailures

\* Positions of a cycle inside an attempt, from taking the lock to leaving it
InAttempt(c) ==
    pc[c] \in { "acquire", "waitlock", "connect", "write", "hsleep", "subscribe", "wait",
                "unsub", "decode", "disconnect", "release", "handle" }

\* C1: a cycle whose attempts all end in a BleakError or a TimeoutError makes
\* exactly three attempts with a RETRY_DELAY sleep before the second and before
\* the third and none after the third, and ends by raising UpdateFailed.
C1_RetryBound ==
    \A c \in Cycles :
        AllTransport(outcomes[c]) =>
            /\ InAttempt(c) =>
                  /\ started[c] = Len(outcomes[c]) + 1
                  /\ nSleeps[c] = Len(outcomes[c])
                  /\ nSleeps[c] * RETRY_DELAY = 2 * (started[c] - 1)
            /\ pc[c] = "raise" => Len(outcomes[c]) = 3
            /\ (pc[c] \in { "raise", "done" } /\ outcomes[c] # << >>) =>
                  /\ Len(outcomes[c]) = 3
                  /\ started[c] = 3
                  /\ nSleeps[c] = 2
            /\ (pc[c] = "done" /\ outcomes[c] # << >>) => outcome[c].kind = "UpdateFailed"

C1_Witness ==
    \E c \in Cycles :
        /\ pc[c] = "done"
        /\ outcomes[c] = << "BleakError", "TimeoutError", "BleakError" >>
        /\ outcome[c].kind = "UpdateFailed"

\* C2: an attempt that ends because no notification arrived in time, with
\* fewer than MAX_RETRIES attempts made, is followed by the retry sleep and
\* another attempt: the cycle does not end there.
C2_NotificationTimeoutRetried ==
    \A c \in Cycles :
        ( /\ outcomes[c] # << >>
          /\ Last(outcomes[c]) = "UpdateFailed"
          /\ started[c] < MAX_RETRIES )
        => pc[c] \notin { "raise", "done" }

\* C3: a decode error (ValueError) on any attempt ends the cycle: no attempt
\* is started after it, no sleep follows it, and the cycle raises UpdateFailed.
C3_FailFast ==
    \A c \in Cycles :
        (outcomes[c] # << >> /\ Last(outcomes[c]) = "ValueError") =>
            /\ pc[c] \in { "raise", "done" }
            /\ started[c] = Len(outcomes[c])
            /\ nSleeps[c] = Len(outcomes[c]) - 1
            /\ pc[c] = "done" => outcome[c].kind = "UpdateFailed"

C3_Witness ==
    \E c \in Cycles :
        /\ pc[c] = "done"
        /\ outcomes[c] = << "BleakError", "ValueError" >>
        /\ started[c] = 2

\* Positions from which the next step of the cycle is a transport operation
\* (connect, write, subscribe, unsubscribe, disconnect)
AtTransportOp(c) == pc[c] \in { "connect", "write", "subscribe", "unsub", "disconnect" }

\* C4: while the connection of one cycle is open, the other cycle has no
\* connection and is not at a transport operation; at most one connection is
\* open at any time.
C4_MutualExclusion ==
    /\ Cardinality({ c \in Cycles : conn[c] }) <= 1
    /\ \A c1, c2 \in Cycles :
          (c1 # c2 /\ conn[c1]) => (~conn[c2] /\ ~AtTransportOp(c2))
    /\ \A c1, c2 \in Cycles :
          (c1 # c2 /\ AtTransportOp(c1)) => ~AtTransportOp(c2)

C4_Witness ==
    \E c1, c2 \in Cycles :
        /\ c1 # c2
        /\ conn[c1]
        /\ pc[c1] = "wait"
        /\ pc[c2] = "waitlock"

\* The readings the payloads of the update cycles stand for
ExpectedReading(payload) ==
    IF payload = Frame(<< 3, 32, 255, 255 >>)
    THEN [kind |-> "dict", p1 |-> Float(896), p2 |-> NoneVal]
    ELSE IF payload = Frame(<< 255, 255, 2, 33 >>)
    THEN [kind |-> "dict", p1 |-> NoneVal, p2 |-> Float(718)]
    ELSE [kind |-> "no reading"]

\* C5: when attempt k is the first to succeed, after k-1 transport failures,
\* the cycle returns the reading of that attempt's payload, has slept exactly
\* k-1 times and starts no attempt k+1.
C5_FirstSuccessWins ==
    \A c \in Cycles :
        (outcomes[c] # << >> /\ Last(outcomes[c]) = "ok") =>
            LET k == Len(outcomes[c])
            IN  /\ pc[c] = "done"
                /\ k \in 1..3
                /\ AllTransport(SubSeq(outcomes[c], 1, k - 1))
                /\ outcome[c] = ExpectedReading(decodedFrom[c])
                /\ nSleeps[c] = k - 1
                /\ started[c] = k

C5_Witness ==
    \E c \in Cycles :
        /\ pc[c] = "done"
        /\ outcomes[c] = << "BleakError", "BleakError", "ok" >>
        /\ outcome[c] = [kind |-> "dict", p1 |-> Float(896), p2 |-> NoneVal]
        /\ nSleeps[c] = 2

\* The two bytes of a probe's field in a payload: bytes 8, 9 and bytes 12, 13
FieldAt(probe) == IF probe = 1 THEN 8 ELSE 12

HasField(payload, probe) == Len(payload) >= FieldAt(probe) + 1

HiByte(payload, probe) == payload[FieldAt(probe)]

LoByte(payload, probe) == payload[FieldAt(probe) + 1]

IsSentinelField(payload, probe) ==
    /\ HasField(payload, probe)
    /\ HiByte(payload, probe) = 255
    /\ LoByte(payload, probe) = 255

\* The field read as a base-16 number
HexToInt(payload, probe) == 256 * HiByte(payload, probe) + LoByte(payload, probe)

\* The field's four characters are decimal digits
IsDecimalField(payload, probe) ==
    /\ HasField(payload, probe)
    /\ \A b \in { HiByte(payload, probe), LoByte(payload, probe) } :
          b \div 16 <= 9 /\ b % 16 <= 9

\* The field's four characters read as a base-10 number
DecimalOf(payload, probe) ==
    LET hi == HiByte(payload, probe)
        lo == LoByte(payload, probe)
    IN  1000 * (hi \div 16) + 100 * (hi % 16) + 10 * (lo \div 16) + (lo % 16)

\* t tenths of a degree is round(n / 10 * 9 / 5 + 32, 1): the tenth nearest to
\* (18 n + 3200) / 100 degrees
IsRounded(t, n) == 10 * t - 5 < 18 * n + 3200 /\ 18 * n + 3200 < 10 * t + 5

\* The decode of the other probe does not raise
OtherDecodes(payload, probe) ==
    LET other == 3 - probe
    IN  IsSentinelField(payload, other) \/ IsDecimalField(payload, other)

\* C6, as claimed: every probe field of four hex digits other than "ffff"
\* decodes to round(hexToInt(field) / 10 * 9 / 5 + 32, 1); "0320" gives 176.0.
C6_HexDecode ==
    (dOut # NotDecoded /\ Len(dIn) >= 13) =>
        \A probe \in 1..2 :
            ~IsSentinelField(dIn, probe) =>
                /\ dOut.kind = "dict"
                /\ ProbeOf(dOut, probe).kind = "float"
                /\ IsRounded(ProbeOf(dOut, probe).v, HexToInt(dIn, probe))

\* C6, amended: a probe field of four decimal digits decodes, whenever the
\* decode returns a dict (it does when the other field is "ffff" or four
\* decimal digits), to round(n / 10 * 9 / 5 + 32, 1) with n the field read in
\* base 10; "0320" gives 89.6, and "0320" with "ffff" gives {1: 89.6, 2: None}.
C6_DecimalDecode ==
    dOut # NotDecoded =>
        /\ \A probe \in 1..2 :
              IsDecimalField(dIn, probe) =>
                  /\ OtherDecodes(dIn, probe) => dOut.kind = "dict"
                  /\ dOut.kind = "dict" =>
                        /\ ProbeOf(dOut, probe).kind = "float"
                        /\ IsRounded(ProbeOf(dOut, probe).v, DecimalOf(dIn, probe))
        /\ dIn = Frame(<< 3, 32, 255, 255 >>) =>
              dOut = [kind |-> "dict", p1 |-> Float(896), p2 |-> NoneVal]

C6_Witness ==
    /\ dIn = Frame(<< 3, 32, 255, 255 >>)
    /\ dOut.kind = "dict"
    /\ dOut.p1 = Float(896)

\* C7: a probe whose field is "ffff" has no value in the returned dict and in
\* coordinator.data and is not available, whatever the other probe's field;
\* the other probe's value is decoded and it is available exactly when the
\* last refresh succeeded.
C7_Sentinel ==
    /\ \A c \in Cycles :
          outcome[c].kind = "dict" =>
              \A probe \in 1..2 :
                  IF IsSentinelField(decodedFrom[c], probe)
                  THEN ProbeOf(outcome[c], probe) = NoneVal
                  ELSE ProbeOf(outcome[c], probe) # NoneVal
    /\ data.kind = "dict" =>
          \A probe \in 1..2 :
              IF IsSentinelField(dataPayload, probe)
              THEN native_value(probe) = NoneVal /\ ~available(probe)
              ELSE /\ native_value(probe) # NoneVal
                   /\ available(probe) <=> last_update_success

C7_Witness ==
    /\ IsSentinelField(dataPayload, 1)
    /\ ~IsSentinelField(dataPayload, 2)
    /\ last_update_success
    /\ data.kind = "dict"
    /\ ~available(1)
    /\ available(2)
    /\ native_value(2) = Float(718)

\* C8: an attempt whose wait timed out ends with the failure raised for the
\* timeout (UpdateFailed, not a BleakError or a TimeoutError); no cycle stays
\* in the wait, and every cycle that started returns or raises.
C8_TimeoutEnforced ==
    /\ [](\A c \in Cycles : (pc[c] = "handle" /\ timedOut[c]) => exc[c] = "UpdateFailed")
    /\ \A c \in Cycles : (pc[c] = "wait") ~> (pc[c] # "wait")
    /\ \A c \in Cycles : (pc[c] \notin { "idle", "done" }) ~> (pc[c] = "done")

\* Positions of a cycle between entering and leaving the BleakClient block
InClient(c) ==
    pc[c] \in { "write", "hsleep", "subscribe", "wait", "unsub", "decode", "disconnect" }

\* C9: the connection of a cycle is open only inside the BleakClient block;
\* once the attempt has left it, on any path, and once the cycle has returned
\* or raised, the cycle has no open connection.
C9_ConnectionClosed ==
    \A c \in Cycles :
        /\ ~InClient(c) => ~conn[c]
        /\ pc[c] \in { "release", "handle", "sleep", "for", "raise", "done" } => ~conn[c]

C9_Witness ==
    \E c \in Cycles :
        /\ pc[c] = "handle"
        /\ subOk[c]
        /\ unsubCalls[c] = 1
        /\ exc[c] = "BleakError"
        /\ ~conn[c]

\* C10: in an attempt whose start_notify succeeded, stop_notify has been
\* called exactly once when the connection is closed and when the attempt
\* ends, after a payload and after a timeout alike; stop_notify is not called
\* otherwise, and no subscription is live once the attempt has ended.
C10_SubscriptionCleanup ==
    \A c \in Cycles :
        /\ (subOk[c] /\ pc[c] \in { "decode", "disconnect", "release", "handle" }) =>
              unsubCalls[c] = 1
        /\ (subOk[c] /\ pc[c] \in { "wait", "unsub" }) => (unsubCalls[c] = 0 /\ conn[c])
        /\ ~subOk[c] => unsubCalls[c] = 0
        /\ ~InClient(c) => ~subscribed[c]

C10_Witness ==
    \E c \in Cycles :
        /\ pc[c] = "disconnect"
        /\ conn[c]
        /\ timedOut[c]
        /\ subOk[c]
        /\ unsubCalls[c] = 1
        /\ ~subscribed[c]

\* C11: in every attempt the six handshake commands are written in the order
\* of HANDSHAKE_COMMANDS, each write is followed by its 0.4 s delay before the
\* next write, and the notify subscription is made only after all six writes
\* succeeded, never before or between writes.
C11_HandshakeOrder ==
    \A c \in Cycles :
        /\ Len(written[c]) <= Len(HANDSHAKE_COMMANDS)
        /\ written[c] = SubSeq(HANDSHAKE_COMMANDS, 1, Len(written[c]))
        /\ pc[c] \in { "acquire", "waitlock", "connect" } => written[c] = << >>
        /\ pc[c] = "write" =>
              /\ Len(written[c]) < Len(HANDSHAKE_COMMANDS)
              /\ hsDelays[c] = Len(written[c])
        /\ pc[c] = "hsleep" => hsDelays[c] = Len(written[c]) - 1
        /\ (subOk[c] \/ subscribed[c] \/ pc[c] \in { "subscribe", "wait", "unsub", "decode" }) =>
              /\ written[c] = HANDSHAKE_COMMANDS
              /\ hsDelays[c] = Len(HANDSHAKE_COMMANDS)

C11_Witness ==
    \E c \in Cycles :
        /\ subscribed[c]
        /\ written[c] = HANDSHAKE_COMMANDS
        /\ hsDelays[c] = 6

\* C12: when the retries are exhausted (three attempts, each ended by a
\* transport failure) the cycle surfaces exactly one failure, an UpdateFailed
\* that states the attempt count and the reason of the last failed attempt,
\* not of an earlier one; nothing is surfaced before the loop is over.
C12_AggregatedFailure ==
    \A c \in Cycles :
        (Len(outcomes[c]) = MAX_RETRIES /\ AllTransport(outcomes[c])) =>
            /\ pc[c] \in { "for", "raise", "done" }
            /\ pc[c] \in { "for", "raise" } =>
                  /\ outcome[c] = NoOutcome
                  /\ last_exception[c] = Last(outcomes[c])
            /\ pc[c] = "done" =>
                  outcome[c] = [kind |-> "UpdateFailed", attempts |-> 3,
                                reason |-> Last(outcomes[c])]

C12_Witness ==
    \E c \in Cycles :
        /\ pc[c] = "done"
        /\ outcomes[c] = << "BleakError", "BleakError", "TimeoutError" >>
        /\ outcome[c].kind = "UpdateFailed"
        /\ outcome[c].reason = "TimeoutError"

\* C13: after any sequence of refreshes a probe is available exactly when the
\* refresh that finished last succeeded and the stored reading, decoded from
\* the payload of the last successful refresh, has a value for that probe.
C13_Availability ==
    \A probe \in 1..2 :
        available(probe) <=>
            /\ lastRefresh = "ok"
            /\ dataPayload # << >>
            /\ ~IsSentinelField(dataPayload, probe)

C13_Witness ==
    /\ lastRefresh = "failed"
    /\ dataPayload = Frame(<< 3, 32, 255, 255 >>)
    /\ native_value(1) = Float(896)
    /\ ~available(1)

\* C14: within one attempt the handler captures only the first payload; a
\* later delivery, also one that arrives after the wait timed out, leaves the
\* captured result (or the cancelled future) as it is and raises nothing, and
\* the decoded reading is computed from the first payload.
C14_FirstWins ==
    /\ [](\A c \in Cycles :
            result[c].kind = "dict" =>
                /\ fut[c].state = "result"
                /\ result[c] = ExpectedReading(fut[c].value))
    /\ [][\A c \in Cycles :
            (fut[c].state \in { "result", "cancelled" } /\ pc[c] # "handle") =>
                fut'[c] = fut[c]]_vars
    /\ [][\A c \in Cycles :
            (~ignored[c] /\ ignored'[c]) =>
                /\ fut'[c] = fut[c]
                /\ exc'[c] = exc[c]
                /\ result'[c] = result[c]
                /\ pc'[c] = pc[c]]_vars

C14_Witness ==
    \E c1, c2 \in Cycles :
        /\ ignored[c1]
        /\ fut[c1].state = "cancelled"
        /\ timedOut[c1]
        /\ ignored[c2]
        /\ fut[c2].state = "result"
        /\ result[c2] = ExpectedReading(fut[c2].value)

\* The last write_gatt_char of the current attempt was rejected: one call more
\* than commands written; the rejected command is number writeCalls[c]
WriteRejected(c) == writeCalls[c] = Len(written[c]) + 1

\* C15: when the k-th handshake write is rejected, the attempt has written
\* commands 1..k-1 only, does not call write again (neither for k nor for a
\* later command), never subscribes, closes the connection, and ends as a
\* transport failure: the loop goes on to the next attempt if one remains,
\* and that attempt starts the handshake again with the first command.
C15_WriteFailure ==
    /\ [](\A c \in Cycles :
            /\ writeCalls[c] \in { Len(written[c]), Len(written[c]) + 1 }
            /\ pc[c] \in { "acquire", "waitlock", "connect" } =>
                  written[c] = << >> /\ writeCalls[c] = 0
            /\ WriteRejected(c) =>
                  /\ written[c] = SubSeq(HANDSHAKE_COMMANDS, 1, writeCalls[c] - 1)
                  /\ pc[c] \in { "disconnect", "release", "handle" }
                  /\ pc[c] \in { "release", "handle" } => ~conn[c]
                  /\ ~subOk[c] /\ ~subscribed[c]
                  /\ exc[c] = "BleakError"
                  /\ result[c] = NoneVal)
    /\ [][\A c \in Cycles :
            (WriteRejected(c) /\ writeCalls'[c] # 0) =>
                writeCalls'[c] = writeCalls[c] /\ written'[c] = written[c]]_vars
    /\ [][\A c \in Cycles :
            (WriteRejected(c) /\ pc[c] = "handle" /\ pc'[c] # "handle") =>
                /\ outcomes'[c] = Append(outcomes[c], "BleakError")
                /\ pc'[c] = IF started[c] < MAX_RETRIES THEN "sleep" ELSE "for"
                /\ written'[c] = << >>
                /\ writeCalls'[c] = 0]_vars
    /\ [][\A c \in Cycles :
            (written[c] = << >> /\ written'[c] # << >>) =>
                written'[c] = << HANDSHAKE_COMMANDS[1] >>]_vars

C15_Witness ==
    \E c \in Cycles :
        /\ pc[c] = "handle"
        /\ writeCalls[c] = 4
        /\ Len(written[c]) = 3
        /\ started[c] = 2
        /\ ~conn[c]

\* C16: for every payload, if the substring of either probe is neither "ffff"
\* nor four decimal digits (it holds a hex letter, as "1e10" or "00a3", or it
\* is cut short by a payload of fewer than 13 bytes), the decode ends in a
\* decode error and yields no reading at all; a reading never has one probe
\* decoded and the other in error.
C16_DecodeError ==
    dOut # NotDecoded =>
        /\ (\E probe \in 1..2 :
               ~IsSentinelField(dIn, probe) /\ ~IsDecimalField(dIn, probe)) =>
              dOut = Raised("ValueError")
        /\ dOut.kind = "dict" =>
              \A probe \in 1..2 : ProbeOf(dOut, probe).kind \in { "None", "float" }

\* C17: a failed cycle does not modify or clear the stored reading: once a
\* refresh has succeeded, coordinator.data is the reading of the last
\* successful refresh and native_value returns its value for each probe,
\* however many failed refreshes followed.
C17_StaleReadingKept ==
    /\ dataPayload = << >> => data = NoneVal
    /\ dataPayload # << >> =>
          /\ data = ExpectedReading(dataPayload)
          /\ \A probe \in 1..2 :
                native_value(probe) = ProbeOf(ExpectedReading(dataPayload), probe)
    /\ \A c \in Cycles :
          (pc[c] = "done" /\ outcome[c].kind = "UpdateFailed" /\ lastRefresh = "failed"
             /\ dataPayload # << >>) =>
              data.kind = "dict"

C17_Witness ==
    /\ lastRefresh = "failed"
    /\ ~last_update_success
    /\ dataPayload = Frame(<< 255, 255, 2, 33 >>)
    /\ native_value(1) = NoneVal
    /\ native_value(2) = Float(718)

\* C18: at most one BLE session is open per device address at any time, also
\* when several coordinators exist for one address (the flow creates an entry
\* for any submitted address); and a refresh waits only for a session on its
\* own address, never for one on another address.
C18_LockPerAddress ==
    /\ \A i, j \in DOMAIN entries : \A c, d \in Cycles :
          (entries[i] = entries[j] /\ << i, c >> # << j, d >>) =>
              ~(sessions[i][c] = "session" /\ sessions[j][d] = "session")
    /\ \A i \in DOMAIN entries : \A c \in Cycles :
          (sessions[i][c] = "waitlock" /\ ble_locks[i]) =>
              \E j \in DOMAIN entries : \E d \in Cycles :
                  entries[j] = entries[i] /\ sessions[j][d] = "session"

\* The cycle is inside "async with self.ble_lock": from the lock taken, just
\* before the connect, to the release that follows the disconnect
HoldsLock(c) ==
    pc[c] \in { "connect", "write", "hsleep", "subscribe", "wait", "unsub", "decode",
                "disconnect", "release" }

\* How far a position is from the end of its attempt
PosRank(c) ==
    CASE pc[c] = "acquire" -> 40
      [] pc[c] = "waitlock" -> 39
      [] pc[c] = "connect" -> 38
      [] pc[c] = "write" -> 36 - 2 * Len(written[c])
      [] pc[c] = "hsleep" -> 37 - 2 * Len(written[c])
      [] pc[c] = "subscribe" -> 24
      [] pc[c] = "wait" -> 23
      [] pc[c] = "unsub" -> 22
      [] pc[c] = "decode" -> 21
      [] pc[c] = "disconnect" -> 6
      [] pc[c] = "release" -> 5
      [] pc[c] = "handle" -> 4
      [] pc[c] = "sleep" -> 3
      [] pc[c] = "for" -> 2

\* A bound on the steps the cycle can still take before it returns or raises
Rank(c) ==
    IF pc[c] \in { "idle", "done" } THEN 0
    ELSE IF pc[c] = "raise" THEN 1
    ELSE 50 * (MAX_RETRIES - 1 - attempt[c]) + PosRank(c)

\* The cycle has a step to take: ENABLED Step(c), written out from the guards
\* of the actions.  A waiting cycle needs the lock free and itself first in the
\* queue; wait_for ends with the result or with the timeout; a write needs a
\* command left; every other position has a step whose guard is the position.
CanStep(c) ==
    CASE pc[c] \in { "idle", "done" } -> FALSE
      [] pc[c] = "waitlock" -> ~locked /\ waiters # << >> /\ Head(waiters) = c
      [] pc[c] = "wait" -> fut[c].state \in { "pending", "result" }
      [] pc[c] = "write" -> Len(written[c]) < Len(HANDSHAKE_COMMANDS)
      [] OTHER -> TRUE

\* C19: a cycle holds the BLE lock exactly from before the connect of an
\* attempt until after that attempt's disconnect; the lock is not held by a
\* cycle in its retry delay nor by one that has returned or raised.  Neither
\* cycle can block the other forever: every step of a cycle brings it closer
\* to its end, a cycle that has not ended can take a step unless it waits for
\* the lock, and then the lock is held by (or about to go to) the other cycle,
\* which can take a step.
C19_LockSpan ==
    /\ [](locked <=> \E c \in Cycles : HoldsLock(c))
    /\ [](\A c1, c2 \in Cycles : (HoldsLock(c1) /\ HoldsLock(c2)) => c1 = c2)
    /\ [](\A c \in Cycles : conn[c] => HoldsLock(c) /\ pc[c] # "connect")
    /\ [](\A c \in Cycles :
            (pc[c] \in { "sleep", "idle", "done" } /\ locked) =>
                \E d \in Cycles : d # c /\ HoldsLock(d))
    /\ [](\A c \in Cycles :
            pc[c] \notin { "idle", "done" } =>
                \/ CanStep(c)
                \/ /\ pc[c] = "waitlock"
                   /\ \E d \in Cycles :
                         /\ d # c
                         /\ HoldsLock(d) \/ (pc[d] = "waitlock" /\ Head(waiters) = d)
                         /\ CanStep(d))
    /\ [][\A c \in Cycles :
            pc[c] \notin { "idle", "done" } =>
                IF pc'[c] # pc[c] THEN Rank(c)' < Rank(c) ELSE Rank(c)' = Rank(c)]_vars

\* A complete session of one cycle, holding the lock, inside the retry delay
\* between the first and the second attempt of the other
C19_Witness ==
    \E c1, c2 \in Cycles :
        /\ pc[c1] = "sleep"
        /\ Len(outcomes[c1]) = 1
        /\ pc[c2] = "release"
        /\ result[c2].kind = "dict"
        /\ locked

\* C20: for every cycle that ends in failure, by exhaustion or by the
\* fail-fast abort, the attempt count stated in the raised UpdateFailed equals
\* the number of attempts the cycle actually started.
C20_AttemptCount ==
    \A c \in Cycles :
        outcome[c].kind = "UpdateFailed" => outcome[c].attempts = started[c]

====
